---- MODULE Spec2Model ----
(***************************************************************************)
(* rtsp-to-mjpeg (src/main.py): a stream registry, and one MJPEG relay     *)
(* session per viewer.  A viewer's GET /video_feed/<id> gets a Response    *)
(* whose body is the generator generate_frames(id): it looks the stream    *)
(* up, launches one decoder process, reads the decoder's output in chunks, *)
(* cuts the JPEG frames out of the accumulated bytes and yields each frame *)
(* wrapped as a multipart section; its finally block kills the process.    *)
(*                                                                         *)
(* Bytes are integers 0..255.  The splitter looks only for the two-byte    *)
(* patterns FF D8 and FF D9, so the alphabet FF, D8, D9 realises every     *)
(* arrangement of marker positions a byte string can have: a byte D8 or    *)
(* D9 that does not follow FF is ordinary payload.                         *)
(***************************************************************************)
EXTENDS Integers, Sequences, FiniteSets, TLC

\* ------------------------------------------------------------------ bounds

\* Viewers of the model; the single-session specifications move viewer 1 only.
NumViewers == 2
\* Stream ids the registry can hold.
MaxId == 1
\* Distinct stream configurations (url, quality, resolution, fps) rows.
NumConfigs == 2
\* The read size of p.stdout.read(4096), scaled down.
ChunkSize == 6
\* Bytes one decoder produces in the service specification.
MaxOut == 4
\* Bytes one decoder produces in the splitter specification.
MaxLen == 9
\* Bytes one decoder produces in the concurrent specification.
MultiOut == 4

Viewers == 1..NumViewers
Ids == 1..MaxId
Configs == 1..NumConfigs

\* ------------------------------------------------------------- byte strings

SOI == <<255, 216>>
EOI == <<255, 217>>
Bytes == {255, 216, 217}

MultipartHeader ==
    << 45, 45, 102, 114, 97, 109, 101, 13, 10,
       67, 111, 110, 116, 101, 110, 116, 45, 84, 121, 112, 101, 58, 32,
       105, 109, 97, 103, 101, 47, 106, 112, 101, 103, 13, 10, 13, 10 >>
CRLF == <<13, 10>>

SetMin(S) == CHOOSE x \in S : \A y \in S : x <= y
SetMax(S) == CHOOSE x \in S : \A y \in S : x >= y

\* bytes.find(sub, from): the lowest 0-based index >= from at which sub
\* occurs, or -1.
Find(s, sub, from) ==
    LET hits == { i \in from..(Len(s) - Len(sub)) :
                      SubSeq(s, i + 1, i + Len(sub)) = sub }
    IN  IF hits = {} THEN -1 ELSE SetMin(hits)

\* s[a:b] and s[a:] for 0 <= a <= b.
Slice(s, a, b) == SubSeq(s, a + 1, IF b < Len(s) THEN b ELSE Len(s))
SliceFrom(s, a) == SubSeq(s, a + 1, Len(s))

\* The boundary scan, dropping the bytes before the start marker when it
\* finds no complete frame.
ScanTrimsGarbage(buf) ==
    LET start == Find(buf, SOI, 0)
        end   == Find(buf, EOI, start + 2)
    IN  IF start /= -1 /\ end /= -1
        THEN [found |-> TRUE, frame |-> Slice(buf, start, end + 2),
              rest |-> SliceFrom(buf, end + 2)]
        ELSE [found |-> FALSE, frame |-> <<>>,
              rest |-> IF start /= -1 THEN SliceFrom(buf, start) ELSE buf]

\* The boundary scan, emptying the buffer when it finds no complete frame.
ScanDropsPartial(buf) ==
    LET start == Find(buf, SOI, 0)
        end   == Find(buf, EOI, start + 2)
    IN  IF start /= -1 /\ end /= -1
        THEN [found |-> TRUE, frame |-> Slice(buf, start, end + 2),
              rest |-> SliceFrom(buf, end + 2)]
        ELSE [found |-> FALSE, frame |-> <<>>, rest |-> <<>>]

\* The boundary scan, keeping the end marker's last byte in the buffer.
ScanOffByOne(buf) ==
    LET start == Find(buf, SOI, 0)
        end   == Find(buf, EOI, start + 2)
    IN  IF start /= -1 /\ end /= -1
        THEN [found |-> TRUE, frame |-> Slice(buf, start, end + 2),
              rest |-> SliceFrom(buf, end + 1)]
        ELSE [found |-> FALSE, frame |-> <<>>, rest |-> buf]

\* The boundary scan, cutting the frame one byte short of its end marker's
\* end.
ScanFrameShort(buf) ==
    LET start == Find(buf, SOI, 0)
        end   == Find(buf, EOI, start + 2)
    IN  IF start /= -1 /\ end /= -1
        THEN [found |-> TRUE, frame |-> Slice(buf, start, end + 1),
              rest |-> SliceFrom(buf, end + 2)]
        ELSE [found |-> FALSE, frame |-> <<>>, rest |-> buf]

\* The boundary scan, leaving the end marker in the buffer.
ScanKeepsTail(buf) ==
    LET start == Find(buf, SOI, 0)
        end   == Find(buf, EOI, start + 2)
    IN  IF start /= -1 /\ end /= -1
        THEN [found |-> TRUE, frame |-> Slice(buf, start, end + 2),
              rest |-> SliceFrom(buf, end)]
        ELSE [found |-> FALSE, frame |-> <<>>, rest |-> buf]

\* The boundary scan, taking the last end marker of the buffer (rfind)
\* instead of the first one after the start marker.
ScanGreedy(buf) ==
    LET start == Find(buf, SOI, 0)
        ends  == { i \in (start + 2)..(Len(buf) - 2) : SubSeq(buf, i + 1, i + 2) = EOI }
        end   == IF ends = {} THEN -1 ELSE SetMax(ends)
    IN  IF start /= -1 /\ end /= -1
        THEN [found |-> TRUE, frame |-> Slice(buf, start, end + 2),
              rest |-> SliceFrom(buf, end + 2)]
        ELSE [found |-> FALSE, frame |-> <<>>, rest |-> buf]

\* One iteration of the boundary scan on the buffer: the frame it cuts out
\* and the buffer it keeps.
ScanStep(buf) ==
    LET start == Find(buf, SOI, 0)
        end   == Find(buf, EOI, start + 2)
    IN  IF start /= -1 /\ end /= -1
        THEN [found |-> TRUE, frame |-> Slice(buf, start, end + 2),
              rest |-> SliceFrom(buf, end + 2)]
        ELSE [found |-> FALSE, frame |-> <<>>, rest |-> buf]

\* The boundary scan run to its break on one buffer: the frames it yields,
\* in order, and the buffer it leaves.
RECURSIVE ScanAll(_)
ScanAll(buf) ==
    LET r == ScanStep(buf)
    IN  IF r.found
        THEN LET t == ScanAll(r.rest)
             IN  [frames |-> <<r.frame>> \o t.frames, rest |-> t.rest]
        ELSE [frames |-> <<>>, rest |-> r.rest]

\* The chunk's first byte is the second byte of a marker whose first byte
\* ended the bytes read before it.
CutsMarker(before, chunk) ==
    /\ before /= <<>>
    /\ before[Len(before)] = 255
    /\ chunk[1] \in {216, 217}

\* The multipart section yielded for one frame, and the frame inside one.
Section(frame) == MultipartHeader \o frame \o CRLF
Payload(chunk) == SubSeq(chunk, Len(MultipartHeader) + 1, Len(chunk) - Len(CRLF))
Payloads(chunks) == [i \in 1..Len(chunks) |-> Payload(chunks[i])]

\* The byte strings of exactly n bytes.
RECURSIVE SeqsOfLen(_)
SeqsOfLen(n) ==
    IF n = 0 THEN {<<>>}
    ELSE { Append(s, b) : s \in SeqsOfLen(n - 1), b \in Bytes }

\* What one p.stdout.read can return from a running decoder: by length, the
\* non-empty chunks of at most ChunkSize bytes.
Chunks == [n \in 1..ChunkSize |-> SeqsOfLen(n)]

\* The chunks that keep a decoder's output within limit bytes.
ChunksWithin(sofar, limit) ==
    UNION { Chunks[n] : n \in { k \in 1..ChunkSize : Len(sofar) + k <= limit } }

\* -------------------------------------------------------------------- state

VARIABLES
    registry,    \* the streams table: id -> config row, 0 when there is no row
    pc,          \* per viewer: idle, start, launch, read, yield, done
    sid,         \* per viewer: the stream id requested
    cfg,         \* per viewer: the row generate_frames read, 0 when none
    status,      \* per viewer: the HTTP status of the Response, 0 before one
    proc,        \* per viewer: the decoder process: none, running, exited, killed
    launches,    \* per viewer: Popen calls that created a process
    kills,       \* per viewer: p.kill() calls
    data,        \* per viewer: the buffer of generate_frames
    readAll,     \* per viewer: every byte p.stdout.read has returned, in order
    markerCut,   \* per viewer: some chunk boundary fell between the two bytes of a marker
    sent,        \* per viewer: the chunks yielded to the client, in order
    clientGone,  \* per viewer: the client has closed its connection
    exit         \* per viewer: how the generator ended

vars == << registry, pc, sid, cfg, status, proc, launches, kills, data,
           readAll, markerCut, sent, clientGone, exit >>

Init ==
    /\ registry = [i \in Ids |-> 0]
    /\ pc = [v \in Viewers |-> "idle"]
    /\ sid = [v \in Viewers |-> 0]
    /\ cfg = [v \in Viewers |-> 0]
    /\ status = [v \in Viewers |-> 0]
    /\ proc = [v \in Viewers |-> "none"]
    /\ launches = [v \in Viewers |-> 0]
    /\ kills = [v \in Viewers |-> 0]
    /\ data = [v \in Viewers |-> <<>>]
    /\ readAll = [v \in Viewers |-> <<>>]
    /\ markerCut = [v \in Viewers |-> FALSE]
    /\ sent = [v \in Viewers |-> <<>>]
    /\ clientGone = [v \in Viewers |-> FALSE]
    /\ exit = [v \in Viewers |-> "none"]

\* ----------------------------------------------------------------- registry

\* INSERT into a table with an INTEGER PRIMARY KEY: the new row's id is one
\* more than the largest id in the table.
add_stream(c) ==
    LET used == { i \in Ids : registry[i] /= 0 }
        id   == IF used = {} THEN 1 ELSE SetMax(used) + 1
    IN  /\ id \in Ids
        /\ registry' = [registry EXCEPT ![id] = c]
        /\ UNCHANGED << pc, sid, cfg, status, proc, launches, kills, data,
                        readAll, markerCut, sent, clientGone, exit >>

\* A removal that also stops the sessions viewing the removed stream.
remove_streamStopsViewers(id) ==
    LET hit == { v \in Viewers : sid[v] = id /\ pc[v] \in {"read", "yield"} }
    IN  /\ registry' = [registry EXCEPT ![id] = 0]
        /\ pc' = [v \in Viewers |-> IF v \in hit THEN "done" ELSE pc[v]]
        /\ exit' = [v \in Viewers |-> IF v \in hit THEN "disconnect" ELSE exit[v]]
        /\ proc' = [v \in Viewers |->
                       IF v \in hit /\ proc[v] = "running" THEN "killed" ELSE proc[v]]
        /\ kills' = [v \in Viewers |-> IF v \in hit THEN kills[v] + 1 ELSE kills[v]]
        /\ UNCHANGED << sid, cfg, status, launches, data, readAll, markerCut,
                        sent, clientGone >>

\* DELETE FROM streams WHERE id = ?.
remove_stream(id) ==
    /\ registry' = [registry EXCEPT ![id] = 0]
    /\ UNCHANGED << pc, sid, cfg, status, proc, launches, kills, data,
                    readAll, markerCut, sent, clientGone, exit >>

\* SELECT ... WHERE id = ?, one=True: the row, or None (0).
query_db(id) == IF id \in Ids THEN registry[id] ELSE 0

\* ------------------------------------------------------------------- viewer

\* The route handler: a Response (status 200) around the generator, which
\* has not run yet.
video_feed(v, id) ==
    /\ pc[v] = "idle"
    /\ sid' = [sid EXCEPT ![v] = id]
    /\ status' = [status EXCEPT ![v] = 200]
    /\ pc' = [pc EXCEPT ![v] = "start"]
    /\ UNCHANGED << registry, cfg, proc, launches, kills, data, readAll,
                    markerCut, sent, clientGone, exit >>

\* A teardown that kills by stream instead of by process handle: every
\* decoder transcoding the same stream dies with the viewer's own.
TerminateAllOfStream(v) ==
    /\ kills' = [kills EXCEPT ![v] = @ + 1]
    /\ proc' = [w \in Viewers |->
                   IF sid[w] = sid[v] /\ proc[w] = "running"
                   THEN "killed" ELSE proc[w]]

\* The finally block: p.kill(), then Popen.__exit__ reaps the process.
NoTerminate(v) ==
    /\ kills' = kills
    /\ proc' = proc

Terminate(v) ==
    /\ kills' = [kills EXCEPT ![v] = @ + 1]
    /\ proc' = [proc EXCEPT ![v] = IF @ = "running" THEN "killed" ELSE @]

\* The ways of ending in which an exception leaves the generator: nothing in
\* generate_frames catches the error of Popen or of read, the finally clause
\* re-raises it.
Raises(how) == how \in {"launcherror", "readerror"}

\* The generator ends: it returns, or an exception leaves it.
Finish(v, how) ==
    /\ pc' = [pc EXCEPT ![v] = "done"]
    /\ exit' = [exit EXCEPT ![v] = how]

\* The boundary scan with the yield outside its loop: of the frames the
\* buffer holds, only the last is yielded.
ScanFromYieldsLast(v, buf) ==
    LET all == ScanAll(buf)
    IN  IF all.frames /= <<>>
        THEN /\ data' = [data EXCEPT ![v] = all.rest]
             /\ sent' = [sent EXCEPT ![v] =
                            Append(@, Section(all.frames[Len(all.frames)]))]
             /\ pc' = [pc EXCEPT ![v] = "yield"]
        ELSE /\ data' = [data EXCEPT ![v] = buf]
             /\ sent' = sent
             /\ pc' = [pc EXCEPT ![v] = "read"]

\* The boundary scan from the top of its loop on buffer buf: the next frame
\* is cut out and yielded, or the loop breaks and the generator reads again.
ScanFrom(v, buf) ==
    LET r == ScanStep(buf)
    IN  IF r.found
        THEN /\ data' = [data EXCEPT ![v] = r.rest]
             /\ sent' = [sent EXCEPT ![v] = Append(@, Section(r.frame))]
             /\ pc' = [pc EXCEPT ![v] = "yield"]
        ELSE /\ data' = [data EXCEPT ![v] = r.rest]
             /\ sent' = sent
             /\ pc' = [pc EXCEPT ![v] = "read"]

\* The lookup taking a missing row for a row: the generator goes on to the
\* launch without one.
GenStartIgnoresMissingRow(v) ==
    /\ pc[v] = "start"
    /\ cfg' = [cfg EXCEPT ![v] = query_db(sid[v])]
    /\ pc' = [pc EXCEPT ![v] = "launch"]
    /\ UNCHANGED << registry, sid, status, proc, launches, kills, data,
                    readAll, markerCut, sent, clientGone, exit >>

\* The first next() on the generator, up to the lookup: query_db opens a
\* connection, reads the row and closes it; without a row the generator
\* returns, with one the row is unpacked into locals.
GenStart(v) ==
    /\ pc[v] = "start"
    /\ LET stream == query_db(sid[v])
       IN  IF stream = 0
           THEN /\ Finish(v, "notfound")
                /\ cfg' = cfg
           ELSE /\ cfg' = [cfg EXCEPT ![v] = stream]
                /\ pc' = [pc EXCEPT ![v] = "launch"]
                /\ exit' = exit
    /\ UNCHANGED << registry, sid, status, proc, launches, kills, data,
                    readAll, markerCut, sent, clientGone >>

\* The launch catching its failure and returning as if the decoder had
\* produced nothing.
LaunchSwallowsError(v, launched) ==
    /\ pc[v] = "launch"
    /\ IF launched
       THEN /\ proc' = [proc EXCEPT ![v] = "running"]
            /\ launches' = [launches EXCEPT ![v] = @ + 1]
            /\ pc' = [pc EXCEPT ![v] = "read"]
            /\ exit' = exit
       ELSE /\ Finish(v, "eof")
            /\ UNCHANGED << proc, launches >>
    /\ UNCHANGED << registry, sid, cfg, status, kills, data, readAll,
                    markerCut, sent, clientGone >>

\* The command is built from the locals and subprocess.Popen is called: the
\* decoder runs, or Popen raises and the exception leaves the generator.
\* Registry operations of other requests can fall between the lookup and
\* this step.
Launch(v, launched) ==
    /\ pc[v] = "launch"
    /\ IF launched
       THEN /\ proc' = [proc EXCEPT ![v] = "running"]
            /\ launches' = [launches EXCEPT ![v] = @ + 1]
            /\ pc' = [pc EXCEPT ![v] = "read"]
            /\ exit' = exit
       ELSE /\ Finish(v, "launcherror")
            /\ UNCHANGED << proc, launches >>
    /\ UNCHANGED << registry, sid, cfg, status, kills, data, readAll,
                    markerCut, sent, clientGone >>

\* The decoder process ends by itself (the source ended, or it failed), at
\* any moment of the session; what it wrote stays in the pipe.
DecoderExit(v) ==
    /\ proc[v] = "running"
    /\ proc' = [proc EXCEPT ![v] = "exited"]
    /\ UNCHANGED << registry, pc, sid, cfg, status, launches, kills, data,
                    readAll, markerCut, sent, clientGone, exit >>

\* p.stdout.read returns a non-empty chunk of what the decoder has written
\* to the pipe, whether the process still runs or has ended since.
Read(v, chunk) ==
    /\ pc[v] = "read"
    /\ readAll' = [readAll EXCEPT ![v] = @ \o chunk]
    /\ markerCut' = [markerCut EXCEPT ![v] = @ \/ CutsMarker(readAll[v], chunk)]
    /\ ScanFrom(v, data[v] \o chunk)
    /\ UNCHANGED << registry, sid, cfg, status, proc, launches, kills,
                    clientGone, exit >>

\* End of stream flushing the buffer: what is left of it is yielded as a
\* last chunk before the generator returns.
ReadEOFFlushes(v) ==
    /\ pc[v] = "read"
    /\ Terminate(v)
    /\ Finish(v, "eof")
    /\ sent' = [sent EXCEPT ![v] =
                   IF data[v] = <<>> THEN @ ELSE Append(@, Section(data[v]))]
    /\ data' = [data EXCEPT ![v] = <<>>]
    /\ UNCHANGED << registry, sid, cfg, status, launches, readAll,
                    markerCut, clientGone >>

\* p.stdout.read returns b"": the write end of the pipe is closed and the
\* pipe is empty; the decoder has ended, or has closed its output and lives
\* on until the finally block kills it.
ReadEOF(v) ==
    /\ pc[v] = "read"
    /\ Terminate(v)
    /\ Finish(v, "eof")
    /\ UNCHANGED << registry, sid, cfg, status, launches, data, readAll,
                    markerCut, sent, clientGone >>

\* p.stdout.read raises.
ReadError(v) ==
    /\ pc[v] = "read"
    /\ Terminate(v)
    /\ Finish(v, "readerror")
    /\ UNCHANGED << registry, sid, cfg, status, launches, data, readAll,
                    markerCut, sent, clientGone >>

\* The client closes its connection.
ClientDisconnect(v) ==
    /\ pc[v] \in {"start", "launch", "read", "yield"}
    /\ ~clientGone[v]
    /\ clientGone' = [clientGone EXCEPT ![v] = TRUE]
    /\ UNCHANGED << registry, pc, sid, cfg, status, proc, launches, kills,
                    data, readAll, markerCut, sent, exit >>

\* The generator going back to the read after a yield, without scanning
\* the rest of the buffer.
ResumeReads(v) ==
    /\ pc[v] = "yield"
    /\ ~clientGone[v]
    /\ pc' = [pc EXCEPT ![v] = "read"]
    /\ UNCHANGED << registry, sid, cfg, status, proc, launches, kills, data,
                    readAll, markerCut, sent, clientGone, exit >>

\* The chunk was written to the client: next() resumes the generator after
\* the yield, at the top of the boundary scan.
Resume(v) ==
    /\ pc[v] = "yield"
    /\ ~clientGone[v]
    /\ ScanFrom(v, data[v])
    /\ UNCHANGED << registry, sid, cfg, status, proc, launches, kills,
                    readAll, markerCut, clientGone, exit >>

\* The generator swallowing GeneratorExit: it kills the process and goes
\* on with the boundary scan.
CloseResumes(v) ==
    /\ pc[v] = "yield"
    /\ clientGone[v]
    /\ Terminate(v)
    /\ exit' = [exit EXCEPT ![v] = "disconnect"]
    /\ ScanFrom(v, data[v])
    /\ UNCHANGED << registry, sid, cfg, status, launches, readAll, markerCut,
                    clientGone >>

\* The write failed: the server closes the generator, GeneratorExit is
\* raised at the yield and the finally block runs.
Close(v) ==
    /\ pc[v] = "yield"
    /\ clientGone[v]
    /\ Terminate(v)
    /\ Finish(v, "disconnect")
    /\ UNCHANGED << registry, sid, cfg, status, launches, data, readAll,
                    markerCut, sent, clientGone >>

\* ----------------------------------------------------------- specifications

\* The steps of viewer v's own context.
GenStep(v) ==
    \/ GenStart(v)
    \/ \E launched \in BOOLEAN : Launch(v, launched)
    \/ Resume(v)
    \/ Close(v)

\* The service with one viewer session: registry operations, the request,
\* the decoder and the client.
Next ==
    \/ \E c \in Configs : add_stream(c)
    \/ \E id \in Ids : remove_stream(id)
    \/ \E id \in 1..(MaxId + 1) : video_feed(1, id)
    \/ GenStart(1)
    \/ \E launched \in BOOLEAN : Launch(1, launched)
    \/ DecoderExit(1)
    \/ /\ pc[1] = "read"
       /\ \E chunk \in ChunksWithin(readAll[1], MaxOut) : Read(1, chunk)
    \/ ReadEOF(1)
    \/ ReadError(1)
    \/ ClientDisconnect(1)
    \/ Resume(1)
    \/ Close(1)

Spec == Init /\ [][Next]_vars

\* The same service; the steps of the viewer's own context are taken when
\* they stay possible.  Read, ReadEOF and ReadError wait for the decoder,
\* an external program that may stay silent, so they carry no fairness.
FairSpec == Spec /\ WF_vars(GenStep(1))

\* One session on a registered stream, for the frame splitter: the decoder's
\* output ranges over every byte string of at most MaxLen bytes, cut in
\* every way into chunks of at most ChunkSize bytes.
SplitInit ==
    /\ registry = [i \in Ids |-> 1]
    /\ pc = [v \in Viewers |-> IF v = 1 THEN "start" ELSE "idle"]
    /\ sid = [v \in Viewers |-> IF v = 1 THEN 1 ELSE 0]
    /\ cfg = [v \in Viewers |-> 0]
    /\ status = [v \in Viewers |-> IF v = 1 THEN 200 ELSE 0]
    /\ proc = [v \in Viewers |-> "none"]
    /\ launches = [v \in Viewers |-> 0]
    /\ kills = [v \in Viewers |-> 0]
    /\ data = [v \in Viewers |-> <<>>]
    /\ readAll = [v \in Viewers |-> <<>>]
    /\ markerCut = [v \in Viewers |-> FALSE]
    /\ sent = [v \in Viewers |-> <<>>]
    /\ clientGone = [v \in Viewers |-> FALSE]
    /\ exit = [v \in Viewers |-> "none"]

SplitNext ==
    \/ GenStart(1)
    \/ Launch(1, TRUE)
    \/ DecoderExit(1)
    \/ /\ pc[1] = "read"
       /\ \E chunk \in ChunksWithin(readAll[1], MaxLen) : Read(1, chunk)
    \/ ReadEOF(1)
    \/ ReadError(1)
    \/ ClientDisconnect(1)
    \/ Resume(1)
    \/ Close(1)

SplitSpec == SplitInit /\ [][SplitNext]_vars

\* Concurrent sessions: every viewer requests the one registered stream and
\* has a generator, a decoder and a client of its own, and the steps of the
\* viewers interleave in every order.  Each decoder writes markers, a chunk
\* at a time, MultiOut bytes at most.
MultiChunks == {SOI, EOI}

MultiInit ==
    /\ registry = [i \in Ids |-> IF i = 1 THEN 1 ELSE 0]
    /\ pc = [v \in Viewers |-> "idle"]
    /\ sid = [v \in Viewers |-> 0]
    /\ cfg = [v \in Viewers |-> 0]
    /\ status = [v \in Viewers |-> 0]
    /\ proc = [v \in Viewers |-> "none"]
    /\ launches = [v \in Viewers |-> 0]
    /\ kills = [v \in Viewers |-> 0]
    /\ data = [v \in Viewers |-> <<>>]
    /\ readAll = [v \in Viewers |-> <<>>]
    /\ markerCut = [v \in Viewers |-> FALSE]
    /\ sent = [v \in Viewers |-> <<>>]
    /\ clientGone = [v \in Viewers |-> FALSE]
    /\ exit = [v \in Viewers |-> "none"]

MultiNext ==
    \E v \in Viewers :
        \/ video_feed(v, 1)
        \/ GenStart(v)
        \/ Launch(v, TRUE)
        \/ DecoderExit(v)
        \/ \E chunk \in MultiChunks :
              /\ Len(readAll[v]) + Len(chunk) <= MultiOut
              /\ Read(v, chunk)
        \/ ReadEOF(v)
        \/ ReadError(v)
        \/ ClientDisconnect(v)
        \/ Resume(v)
        \/ Close(v)

MultiSpec == MultiInit /\ [][MultiNext]_vars

\* ----------------------------------------------------------------- helpers

\* A start marker, an end marker begins at the 1-based position i of s.
StartAt(s, i) == i >= 1 /\ i + 1 <= Len(s) /\ s[i] = 255 /\ s[i + 1] = 216
EndAt(s, i) == i >= 1 /\ i + 1 <= Len(s) /\ s[i] = 255 /\ s[i + 1] = 217

HasStart(s) == \E i \in 1..Len(s) : StartAt(s, i)
\* A start marker followed by an end marker that does not overlap it.
HasPair(s) == \E i \in 1..Len(s) :
                  StartAt(s, i) /\ \E j \in (i + 2)..Len(s) : EndAt(s, j)

IsPrefix(a, b) == Len(a) <= Len(b) /\ SubSeq(b, 1, Len(a)) = a

\* A complete span: a start marker, a payload, an end marker, the end marker
\* being the first one that begins after the start marker.
IsSpan(s) ==
    /\ Len(s) >= 4
    /\ StartAt(s, 1)
    /\ EndAt(s, Len(s) - 1)
    /\ \A j \in 3..(Len(s) - 2) : ~EndAt(s, j)

\* The complete spans of s, read from its start: each span may be preceded
\* by bytes that hold no start marker.  n is their number, tail the bytes
\* after the last one.
RECURSIVE SpansIn(_)
SpansIn(s) ==
    LET cuts == { c \in (0..Len(s)) \X (1..Len(s)) :
                     /\ StartAt(s, c[1] + 1)
                     /\ EndAt(s, c[2] - 1)
                     /\ ~HasStart(SubSeq(s, 1, c[1]))
                     /\ IsSpan(SubSeq(s, c[1] + 1, c[2])) }
    IN  IF cuts = {} THEN [n |-> 0, tail |-> s]
        ELSE LET c == CHOOSE x \in cuts : TRUE
                 r == SpansIn(SubSeq(s, c[2] + 1, Len(s)))
             IN  [n |-> r.n + 1, tail |-> r.tail]

\* The bytes the step's read returned.
NewBytes(v) == SubSeq(readAll'[v], Len(readAll[v]) + 1, Len(readAll'[v]))

\* ------------------------------------------------------------------- claims

\* C1: a session that launched a decoder process has killed it exactly once
\* when its frame sequence is complete, however it ended (client disconnect,
\* end of stream, read error, also on the first read), and never more than
\* once.
C1_KilledExactlyOnce ==
    \A v \in Viewers :
        /\ kills[v] <= 1
        /\ (pc[v] = "done" /\ launches[v] = 1) => (kills[v] = 1 /\ proc[v] /= "running")
        /\ launches[v] = 0 => kills[v] = 0

C1_FirstReadErrors ==
    /\ exit[1] = "readerror"
    /\ readAll[1] = <<>>
    /\ launches[1] = 1
    /\ kills[1] = 1

\* C2: a request for a stream id the lookup does not find ends with an HTTP
\* error status and no body bytes.
C2_UnknownIdIsHttpError ==
    \A v \in Viewers :
        exit[v] = "notfound" => (status[v] >= 400 /\ sent[v] = <<>>)

\* C3: when the lookup finds no row for the stream id, the generator ends in
\* that step, and it has launched no process and yielded no bytes.
C3_NotFoundLaunchesNothing ==
    /\ [][\A v \in Viewers :
            (pc[v] = "start" /\ query_db(sid[v]) = 0 /\ pc'[v] /= "start")
                => (pc'[v] = "done" /\ exit'[v] = "notfound"
                    /\ launches'[v] = 0 /\ sent'[v] = <<>>)]_vars
    /\ [](\A v \in Viewers :
            exit[v] = "notfound"
                => (launches[v] = 0 /\ proc[v] = "none" /\ kills[v] = 0
                    /\ sent[v] = <<>> /\ readAll[v] = <<>>))

C3_UnknownIdRequested ==
    /\ exit[1] = "notfound"
    /\ \E i \in Ids : registry[i] /= 0
    /\ launches[1] = 0

\* C4: when the client disconnects while the generator is suspended at the
\* yield of a frame, the generator's next step is its end, with the process
\* killed exactly once, and nothing is read from the decoder afterwards.
C4_DisconnectKillsOnceAndStopsReading ==
    /\ [][\A v \in Viewers :
            (pc[v] = "yield" /\ clientGone[v] /\ pc'[v] /= "yield")
                => (pc'[v] = "done" /\ exit'[v] = "disconnect"
                    /\ kills'[v] = 1 /\ readAll'[v] = readAll[v])]_vars
    /\ [][\A v \in Viewers :
            exit[v] = "disconnect"
                => (pc'[v] = "done" /\ readAll'[v] = readAll[v]
                    /\ data'[v] = data[v] /\ sent'[v] = sent[v]
                    /\ kills'[v] = kills[v] /\ proc'[v] = proc[v])]_vars
    /\ [](\A v \in Viewers :
            exit[v] = "disconnect"
                => (Len(sent[v]) >= 1 /\ kills[v] = 1 /\ proc[v] /= "running"))

C4_DisconnectWithFramePending ==
    /\ exit[1] = "disconnect"
    /\ Len(sent[1]) = 1
    /\ HasPair(data[1])
    /\ proc[1] = "killed"
    /\ kills[1] = 1

\* C5: if the client disconnects while the generator waits in the read, the
\* process is eventually killed, whatever the decoder does.
C5_ReadCancelledOnDisconnect ==
    \A v \in Viewers : (clientGone[v] /\ pc[v] = "read") ~> (kills[v] = 1)

\* C6: whenever the boundary scan has run to its break, the frames yielded
\* so far and the buffer are those of one boundary scan over all the bytes
\* read so far taken as a single chunk, however the bytes were cut into
\* chunks.
C6_ChunkingInvariance ==
    \A v \in Viewers :
        (pc[v] = "read" \/ exit[v] \in {"eof", "readerror"})
            => LET whole == ScanAll(readAll[v])
               IN  /\ Payloads(sent[v]) = whole.frames
                   /\ data[v] = whole.rest

C6_MarkerCutBetweenChunks ==
    /\ exit[1] = "eof"
    /\ markerCut[1]
    /\ Len(sent[1]) = 2
    /\ Len(readAll[1]) > ChunkSize

\* C7 as stated, for N >= 1: when the decoder's whole output holds N complete
\* spans and no partial span after them (no start marker after the last
\* span), exactly N frames are yielded and the buffer ends empty.
C7_SpansEmittedBufferEmpty ==
    \A v \in Viewers :
        (exit[v] = "eof" /\ SpansIn(readAll[v]).n >= 1
         /\ ~HasStart(SpansIn(readAll[v]).tail))
            => (Len(sent[v]) = SpansIn(readAll[v]).n /\ data[v] = <<>>)

\* C7, amended: when the decoder's whole output holds N complete spans and
\* no byte after the last span, exactly N frames are yielded and the buffer
\* ends empty.
C7_SpansEmittedNothingAfter ==
    \A v \in Viewers :
        (exit[v] = "eof" /\ SpansIn(readAll[v]).tail = <<>>)
            => (Len(sent[v]) = SpansIn(readAll[v]).n /\ data[v] = <<>>)

C7_TwoSpans ==
    /\ exit[1] = "eof"
    /\ SpansIn(readAll[1]).n = 2
    /\ SpansIn(readAll[1]).tail = <<>>
    /\ readAll[1][1] = 217
    /\ Len(sent[1]) = 2
    /\ data[1] = <<>>

\* C8: a boundary scan of a buffer that holds a start marker and no end
\* marker after a start marker yields nothing and leaves the buffer as it
\* is: after a read, the buffer is the old buffer followed by the chunk.
C8_OpenFrameKept ==
    [][\A v \in Viewers :
         /\ LET buf == data[v] \o NewBytes(v)
            IN  (pc[v] = "read" /\ readAll'[v] /= readAll[v]
                 /\ HasStart(buf) /\ ~HasPair(buf))
                    => (sent'[v] = sent[v] /\ data'[v] = buf /\ pc'[v] = "read")
         /\ (pc[v] = "yield" /\ pc'[v] /= "yield" /\ exit'[v] = "none"
             /\ HasStart(data[v]) /\ ~HasPair(data[v]))
                => (sent'[v] = sent[v] /\ data'[v] = data[v] /\ pc'[v] = "read")]_vars

C8_OpenFrameAfterGarbage ==
    /\ pc[1] = "read"
    /\ data[1] = readAll[1]
    /\ Len(data[1]) >= 4
    /\ data[1][1] = 217
    /\ HasStart(data[1])
    /\ sent[1] = <<>>

\* C9: the frames delivered to a viewer are, at every moment, a prefix of
\* the frames the decoder output read so far contains, in the same order.
C9_DeliveredInDecoderOrder ==
    \A v \in Viewers :
        IsPrefix(Payloads(sent[v]), ScanAll(readAll[v]).frames)

C9_TwoDistinctFramesDelivered ==
    /\ Len(sent[1]) = 2
    /\ sent[1][1] /= sent[1][2]
    /\ Len(sent[1][1]) > Len(sent[1][2])

\* C10 as stated: whenever the generator is at a read, or its sequence has
\* ended, the buffer holds no start marker followed by an end marker.
C10_NoCompleteFrameAtReadOrEnd ==
    \A v \in Viewers :
        (pc[v] = "read" \/ pc[v] = "done") => ~HasPair(data[v])

\* C10, amended: whenever the generator is at a read, or its sequence has
\* ended by end of stream or by a read error, the buffer holds no start
\* marker followed by an end marker.
C10_NoCompleteFrameAtReadOrSourceEnd ==
    \A v \in Viewers :
        (pc[v] = "read" \/ exit[v] \in {"eof", "readerror"}) => ~HasPair(data[v])

C10_OpenFrameAfterAFrame ==
    /\ pc[1] = "read"
    /\ Len(sent[1]) = 1
    /\ HasStart(data[1])
    /\ Len(data[1]) >= 3

\* C11: every chunk yielded is the multipart header, a frame and CRLF, and
\* the frame begins with FF D8 and ends with FF D9, the end marker beginning
\* at least two bytes after the start marker's first byte: at least 4 bytes.
C11_FramesAreMarkerDelimited ==
    \A v \in Viewers : \A i \in 1..Len(sent[v]) :
        LET chunk == sent[v][i]
            f     == Payload(chunk)
        IN  /\ chunk = MultipartHeader \o f \o CRLF
            /\ Len(f) >= 4
            /\ StartAt(f, 1)
            /\ EndAt(f, Len(f) - 1)

C11_ShortestAndLongerFrame ==
    /\ Len(sent[1]) = 2
    /\ Len(Payload(sent[1][1])) = 4
    /\ Len(Payload(sent[1][2])) = 5

\* C12: when the decoder cannot be started for a registered stream, the
\* generator ends by raising the launch error (it does not return normally),
\* and the session then has no process, no launch or kill on record, an empty
\* buffer and no frame delivered; it stays so.
C12_LaunchFailureRaisesAndLeavesNothing ==
    /\ [][\A v \in Viewers :
            (pc[v] = "launch" /\ pc'[v] = "done")
                => (exit'[v] = "launcherror" /\ Raises(exit'[v]))]_vars
    /\ [](\A v \in Viewers :
            exit[v] = "launcherror"
                => /\ pc[v] = "done"
                   /\ proc[v] = "none"
                   /\ launches[v] = 0
                   /\ kills[v] = 0
                   /\ data[v] = <<>>
                   /\ readAll[v] = <<>>
                   /\ sent[v] = <<>>)

C12_LaunchFailed ==
    /\ exit[1] = "launcherror"
    /\ cfg[1] /= 0
    /\ registry[sid[1]] = cfg[1]

\* The whole of viewer v's session: request, generator position, snapshot of
\* the row, decoder process, buffer, bytes read and chunks delivered.
Session(v) ==
    << pc[v], sid[v], cfg[v], status[v], proc[v], launches[v], kills[v],
       data[v], readAll[v], markerCut[v], sent[v], clientGone[v], exit[v] >>

\* C13: with several viewers at once, also of the same stream, a running
\* session has one decoder process of its own, and every step that changes
\* one viewer's session (a read, end of stream, read error, disconnect or
\* kill among them) leaves every other viewer's process, buffer, delivered
\* chunks and whole session, and the registry, unchanged.
C13_SessionsIsolated ==
    /\ [][\A v \in Viewers :
            Session(v)' /= Session(v)
                => /\ registry' = registry
                   /\ \A w \in Viewers \ {v} : Session(w)' = Session(w)]_vars
    /\ [](\A v \in Viewers :
            pc[v] \in {"read", "yield"}
                => launches[v] = 1 /\ proc[v] \in {"running", "exited"})

C13_OneKilledOtherStillDecoding ==
    /\ sid[1] = 1 /\ sid[2] = 1
    /\ exit[1] = "disconnect"
    /\ proc[1] = "killed"
    /\ Len(sent[1]) = 1
    /\ pc[2] = "read"
    /\ proc[2] = "running"
    /\ data[2] = SOI
    /\ sent[2] = <<>>

\* C14: no read is performed, and no end of stream or read error is taken,
\* while the buffer holds a start marker followed by an end marker; at a
\* yield with such a pair in the buffer the generator's next step yields the
\* next frame of the buffer, in buffer order, without reading.
C14_BufferDrainedBeforeNextRead ==
    [][\A v \in Viewers :
         /\ (readAll'[v] /= readAll[v] \/ (pc[v] = "read" /\ pc'[v] = "done"))
                => ~HasPair(data[v])
         /\ (pc[v] = "yield" /\ HasPair(data[v]) /\ pc'[v] /= "done"
                /\ << pc[v], data[v], sent[v], readAll[v] >>'
                       /= << pc[v], data[v], sent[v], readAll[v] >>)
                => /\ readAll'[v] = readAll[v]
                   /\ pc'[v] = "yield"
                   /\ Len(sent'[v]) = Len(sent[v]) + 1
                   /\ Payload(sent'[v][Len(sent'[v])]) = ScanAll(data[v]).frames[1]
                   /\ Len(ScanAll(data'[v]).frames) = Len(ScanAll(data[v]).frames) - 1]_vars

\* One read has left two complete frames in the buffer: the first is at the
\* yield, the second still in the buffer.
C14_SecondFramePendingAtYield ==
    /\ pc[1] = "yield"
    /\ ~clientGone[1]
    /\ Len(sent[1]) = 1
    /\ IsSpan(data[1])
    /\ Len(readAll[1]) = 8

\* C15: the step on which read returns no bytes ends the generator without
\* yielding and without touching the buffer; from then on the session does
\* not change (no chunk, no read), and the chunks delivered are the frames
\* cut before the end: the bytes left in the buffer were never emitted.
C15_EndOfStreamEndsSequence ==
    /\ [][\A v \in Viewers :
            /\ (exit[v] /= "eof" /\ exit'[v] = "eof")
                   => /\ pc[v] = "read" /\ pc'[v] = "done"
                      /\ sent'[v] = sent[v]
                      /\ data'[v] = data[v]
                      /\ readAll'[v] = readAll[v]
            /\ exit[v] = "eof" => Session(v)' = Session(v)]_vars
    /\ [](\A v \in Viewers :
            exit[v] = "eof"
                => /\ pc[v] = "done"
                   /\ Payloads(sent[v]) = ScanAll(readAll[v]).frames
                   /\ data[v] = ScanAll(readAll[v]).rest)

C15_EndWithOpenFrameInBuffer ==
    /\ exit[1] = "eof"
    /\ Len(sent[1]) = 1
    /\ HasStart(data[1])
    /\ Len(data[1]) >= 3

\* C16: every iteration of the boundary scan, after a read or after a yield,
\* on every buffer content, either cuts one frame out and leaves the buffer at
\* least 4 bytes shorter, or breaks to the read with the buffer as it was; so
\* a buffer of n bytes is scanned at most n / 4 + 1 times before the next read.
C16_ScanShortensOrExits ==
    /\ [][\A v \in Viewers :
            LET buf == data[v] \o NewBytes(v)
            IN  (readAll'[v] /= readAll[v]
                     \/ (pc[v] = "yield" /\ pc'[v] /= "done"
                            /\ << pc[v], data[v], sent[v] >>'
                                   /= << pc[v], data[v], sent[v] >>))
                    => \/ /\ Len(sent'[v]) = Len(sent[v]) + 1
                          /\ pc'[v] = "yield"
                          /\ Len(data'[v]) + 4 <= Len(buf)
                       \/ /\ sent'[v] = sent[v]
                          /\ pc'[v] = "read"
                          /\ data'[v] = buf]_vars
    /\ [](\A v \in Viewers : 4 * Len(ScanAll(data[v]).frames) <= Len(data[v]))

\* The scan has cut a frame and then broken out on a buffer of bytes that
\* hold no marker at all.
C16_ScanExitedOnGarbage ==
    /\ pc[1] = "read"
    /\ Len(sent[1]) = 1
    /\ Len(data[1]) >= 2
    /\ \A i \in 1..Len(data[1]) : data[1][i] /= 255

\* C17: a session's snapshot of its row is taken on one step only, the
\* generator's first, from the registry as it is then and before any decoder
\* was launched; a launched decoder always has its snapshot; no step of a
\* session changes the registry; and no registry operation, the removal of
\* the viewed stream included, changes anything of a session.
C17_SnapshotOnceRegistryIndependent ==
    /\ [][\A v \in Viewers :
            /\ cfg'[v] /= cfg[v]
                   => /\ pc[v] = "start"
                      /\ launches[v] = 0
                      /\ cfg[v] = 0
                      /\ cfg'[v] = query_db(sid[v])
            /\ Session(v)' /= Session(v) => registry' = registry
            /\ registry' /= registry => Session(v)' = Session(v)]_vars
    /\ [](\A v \in Viewers : launches[v] >= 1 => launches[v] = 1 /\ cfg[v] /= 0)

\* The viewed stream was removed and its id given to another configuration
\* while the session, launched with the first one, goes on delivering.
C17_ViewedStreamReplacedMidSession ==
    /\ pc[1] = "yield"
    /\ proc[1] = "running"
    /\ sid[1] = 1
    /\ cfg[1] = 1
    /\ registry[1] = 2
    /\ Len(sent[1]) = 1

\* The bytes of viewer v's input that have left the buffer.
Consumed(v) == SubSeq(readAll[v], 1, Len(readAll[v]) - Len(data[v]))

\* C18: at every point the bytes read so far are the bytes that left the
\* buffer followed by the buffer, in the order read; nothing has left the
\* buffer before the first frame is emitted, and afterwards what has left it
\* ends with the most recently emitted frame, end marker included, and holds
\* exactly the emitted frames.
C18_BytesConserved ==
    \A v \in Viewers :
        /\ Len(data[v]) <= Len(readAll[v])
        /\ readAll[v] = Consumed(v) \o data[v]
        /\ IF sent[v] = <<>>
           THEN Consumed(v) = <<>>
           ELSE LET f == Payload(sent[v][Len(sent[v])])
                    n == Len(Consumed(v))
                IN  /\ Len(f) <= n
                    /\ SubSeq(Consumed(v), n - Len(f) + 1, n) = f
                    /\ EndAt(Consumed(v), n - 1)
                    /\ ScanAll(Consumed(v)) = [frames |-> Payloads(sent[v]), rest |-> <<>>]

\* Bytes before the first frame went out of the buffer with it, and bytes
\* read after it wait in the buffer.
C18_GarbageFrameAndRemainder ==
    /\ pc[1] = "read"
    /\ Len(sent[1]) = 1
    /\ readAll[1][1] = 216
    /\ Len(Consumed(1)) > Len(Payload(sent[1][1]))
    /\ Len(data[1]) >= 2

\* C19: a step that emits a frame emits the bytes of the buffer from its
\* first start marker to the first end marker that begins at least 2 bytes
\* after it, and leaves in the buffer the bytes after that end marker only:
\* what came before the start marker is gone with the frame.  Every frame
\* delivered therefore holds FF D9 in its last two bytes and nowhere else.
C19_FrameIsShortestSpan ==
    /\ [][\A v \in Viewers :
            Len(sent'[v]) > Len(sent[v])
                => LET buf == data[v] \o NewBytes(v)
                       f   == Payload(sent'[v][Len(sent'[v])])
                   IN  \E i \in 1..Len(buf) :
                          /\ StartAt(buf, i)
                          /\ \A i2 \in 1..(i - 1) : ~StartAt(buf, i2)
                          /\ \E j \in (i + 2)..Len(buf) :
                                /\ EndAt(buf, j)
                                /\ \A j2 \in (i + 2)..(j - 1) : ~EndAt(buf, j2)
                                /\ f = SubSeq(buf, i, j + 1)
                                /\ data'[v] = SubSeq(buf, j + 2, Len(buf))]_vars
    /\ [](\A v \in Viewers : \A k \in 1..Len(sent[v]) :
            LET f == Payload(sent[v][k])
            IN  \A j \in 1..Len(f) : EndAt(f, j) <=> j = Len(f) - 1)

\* Bytes holding an end marker came before the frame, and a second end marker
\* came after the one the frame stops at.
C19_EndMarkersAroundFrame ==
    /\ pc[1] = "yield"
    /\ Len(sent[1]) = 1
    /\ EndAt(readAll[1], 1)
    /\ Len(Payload(sent[1][1])) = 5
    /\ EndAt(data[1], 1)

====
